---- MODULE Spec2Model ----
(***************************************************************************)
(* Model of src/app.py: a two-user point ledger kept in one CSV file.      *)
(*                                                                         *)
(* Every browser session runs the whole script on each widget event.  The  *)
(* ledger is the file DATA_FILE; add_entry reads the whole file, appends   *)
(* one row in memory and rewrites the whole file.  The Timestamp column is *)
(* left out: no operation of the ledger or of the aggregates reads it.     *)
(* The Japanese labels are written in ASCII.                               *)
(***************************************************************************)
EXTENDS Integers, Sequences, FiniteSets

VARIABLES
    fstate,           \* DATA_FILE on disk: "absent", "empty" (0 bytes), "csv"
    stored,           \* rows of the last completed to_csv (the bytes when fstate = "csv")
    pc,               \* per session: position of its script run
    current_user,     \* per session: the sidebar radio
    current_balance,  \* per session: the balance its page was rendered with (line 93)
    clicked,          \* per session: the widget whose branch is running
    new_entry,        \* per session: the row add_entry was called with
    df                \* per session: the frame add_entry loaded

vars == <<fstate, stored, pc, current_user, current_balance, clicked, new_entry, df>>

\* ---------------------------------------------------------------- bounds
\* add_entry is not started on a stored log of this many rows:
MaxLog == 3           \* one session alone
MaxShared == 2        \* two sessions, steps interleaved
MaxTurns == 3         \* two sessions, runs taking turns

\* ------------------------------------------------------------- constants
Sessions == {1, 2}

USERS == <<"Abe", "Aya">>

UserSet == {USERS[i] : i \in DOMAIN USERS}

SAVINGS_ITEMS ==
    << [name |-> "tsumori_chokin", points |-> 100, type |-> "saving"],
       [name |-> "gaishoku_gaman", points |-> 300, type |-> "saving"] >>

DIET_ITEMS ==
    << [name |-> "kintore", points |-> 50, type |-> "diet"],
       [name |-> "yasai", points |-> 30, type |-> "diet"],
       [name |-> "okashi_gaman", points |-> 50, type |-> "diet"] >>

TICKETS ==
    << [name |-> "katamomi_10min", cost |-> 300],
       [name |-> "sara_arai_menjo", cost |-> 500],
       [name |-> "yuhan_request", cost |-> 1000],
       [name |-> "odekake_plan", cost |-> 2000] >>

\* Inputs of the two forms.  number_input(min_value=1) admits integers >= 1;
\* text_input admits any text, the empty text included.
DepositAmounts == {200, 500, 2000}

DietPoints == {1}

DietDescs == {"", "walk", "NA", "10"}

\* ------------------------------------------------- pandas CSV conversion
\* A cell of the Item column in memory: a Python str, NaN, or a number that
\* read_csv inferred (kept by its text).
StrCell(t) == [k |-> "str", v |-> t]

NaNCell == [k |-> "nan", v |-> ""]

\* read_csv's default na_values, restricted to the texts the inputs produce.
NA_VALUES == {"", "NA"}

IsIntText(t) == t \in {"10"}

IsNumText(t) == t \in {"10", "10.0"}

FloatText(t) == IF t = "10" THEN "10.0" ELSE t

\* read_csv: a column whose non-NA cells are all numeric becomes int64 (no NA
\* cell, all integers) or float64; otherwise it stays object (str and NaN).
read_csv(text) ==
    LET n      == Len(text)
        nonNA  == {i \in 1..n : text[i].Item \notin NA_VALUES}
        allNum == \A i \in nonNA : IsNumText(text[i].Item)
        asInt  == nonNA = 1..n /\ \A i \in nonNA : IsIntText(text[i].Item)
        cell(t) == IF t \in NA_VALUES THEN NaNCell
                   ELSE IF allNum
                        THEN (IF asInt THEN [k |-> "int", v |-> t]
                                       ELSE [k |-> "float", v |-> FloatText(t)])
                        ELSE StrCell(t)
    IN  [i \in 1..n |-> [text[i] EXCEPT !.Item = cell(text[i].Item)]]

\* to_csv: NaN is written as the empty field, everything else by its text.
to_csv(frame) ==
    [i \in 1..Len(frame) |->
        [frame[i] EXCEPT !.Item = IF frame[i].Item.k = "nan" THEN "" ELSE frame[i].Item.v]]

\* ------------------------------------------------------------- functions
\* pd.read_csv raises on a file of 0 bytes (EmptyDataError).
ReadRaises == fstate = "empty"

\* load_data behind a cache: the frame of the last completed save is returned
\* whatever the file holds now.
load_data_cached == read_csv(stored)

load_data ==
    IF fstate # "absent"
    THEN (IF ReadRaises THEN << >> ELSE read_csv(stored))
    ELSE << >>

RECURSIVE SumField(_, _)
SumField(frame, f) ==
    IF frame = << >> THEN 0 ELSE frame[1][f] + SumField(Tail(frame), f)

Filter(frame, col, val) == SelectSeq(frame, LAMBDA r : r[col] = val)

\* get_balance without the User filter.
BalanceOf_all_users(frame, user) ==
    IF frame = << >> THEN 0 ELSE SumField(frame, "Points")

BalanceOf(frame, user) ==
    IF frame = << >> THEN 0 ELSE SumField(Filter(frame, "User", user), "Points")

get_balance(user) == BalanceOf(load_data, user)

\* get_global_stats counting every row as a diet action.
StatsOf_every_row(frame) ==
    IF frame = << >> THEN <<0, 0>>
    ELSE << SumField(Filter(frame, "Category", "saving"), "Value"), Len(frame) >>

StatsOf(frame) ==
    IF frame = << >> THEN <<0, 0>>
    ELSE << SumField(Filter(frame, "Category", "saving"), "Value"),
            Len(Filter(frame, "Category", "diet")) >>

get_global_stats == StatsOf(load_data)

Entry(user, type, category, item, value, points) ==
    [User |-> user, Type |-> type, Category |-> category,
     Item |-> StrCell(item), Value |-> value, Points |-> points]

NoEntry == Entry("", "", "", "", 0, 0)

\* ------------------------------------------------------------------ Init
Init ==
    /\ fstate = "absent"
    /\ stored = << >>
    /\ pc = [s \in Sessions |-> "rerun"]
    /\ current_user = [s \in Sessions |-> USERS[1]]
    /\ current_balance = [s \in Sessions |-> 0]
    /\ clicked = [s \in Sessions |-> "none"]
    /\ new_entry = [s \in Sessions |-> NoEntry]
    /\ df = [s \in Sessions |-> << >>]

\* --------------------------------------------------------------- actions
concat(frame, entry) == Append(frame, entry)

\* A widget whose branch calls add_entry was triggered: the script runs from
\* the top into add_entry, whose line 50 loads the file.  The balance this run
\* computes at line 93 is not read again before the run ends at st.rerun();
\* current_balance keeps the value the page was rendered with.
\* With inp.atomic the whole of add_entry is one step, as it is when no other
\* session runs during it; otherwise save_data follows in the steps Open and
\* Write.
StartAdd(s, widget, entry, inp) ==
    /\ pc[s] = "idle"
    /\ Len(stored) < inp.maxlog
    /\ IF inp.atomic
       THEN /\ fstate' = "csv"
            /\ stored' = to_csv(concat(load_data, entry))
            /\ pc' = [pc EXCEPT ![s] = "rerun"]
            /\ UNCHANGED <<current_user, current_balance, clicked, new_entry, df>>
       ELSE /\ clicked' = [clicked EXCEPT ![s] = widget]
            /\ new_entry' = [new_entry EXCEPT ![s] = entry]
            /\ df' = [df EXCEPT ![s] = load_data]
            /\ pc' = [pc EXCEPT ![s] = "open"]
            /\ UNCHANGED <<fstate, stored, current_user, current_balance>>

\* A script run in which no add_entry branch is taken: it reads the file and
\* renders the sidebar, the totals, the shop and the history.
Render(s) ==
    /\ pc[s] = "rerun"
    /\ current_balance' = [current_balance EXCEPT ![s] = get_balance(current_user[s])]
    /\ pc' = [pc EXCEPT ![s] = "idle"]
    /\ UNCHANGED <<fstate, stored, current_user, clicked, new_entry, df>>

\* The sidebar radio is changed: the script reruns for the other user.
SelectUser(s, u) ==
    /\ pc[s] = "idle"
    /\ u # current_user[s]
    /\ current_user' = [current_user EXCEPT ![s] = u]
    /\ current_balance' = [current_balance EXCEPT ![s] = get_balance(u)]
    /\ UNCHANGED <<fstate, stored, pc, clicked, new_entry, df>>

ClickSaving(s, i, inp) ==
    LET item == SAVINGS_ITEMS[i]
    IN  StartAdd(s, "save_item",
                 Entry(current_user[s], "earn", "saving", item.name, item.points, item.points),
                 inp)

SubmitDeposit(s, amount, inp) ==
    StartAdd(s, "custom_deposit",
             Entry(current_user[s], "earn", "saving", "nyukin", amount, amount), inp)

ClickDiet(s, i, inp) ==
    LET item == DIET_ITEMS[i]
    IN  StartAdd(s, "diet_item",
                 Entry(current_user[s], "earn", "diet", item.name, 1, item.points), inp)

\* The form is submitted with an empty description: no branch is taken.
SubmitDiet(s, diet_desc, diet_pt, inp) ==
    IF diet_desc # ""
    THEN StartAdd(s, "custom_diet",
                  Entry(current_user[s], "earn", "diet", diet_desc, 1, diet_pt), inp)
    ELSE /\ pc[s] = "idle"
         /\ current_balance' = [current_balance EXCEPT ![s] = get_balance(current_user[s])]
         /\ UNCHANGED <<fstate, stored, pc, current_user, clicked, new_entry, df>>

\* The disabled flag with the boundary excluded.
Disabled_at_cost(s, i) == current_balance[s] <= TICKETS[i].cost

\* The disabled flag the session's page was rendered with.
Disabled(s, i) == current_balance[s] < TICKETS[i].cost

\* The purchase with the sign of Points lost.
ClickBuy_positive(s, i, inp) ==
    /\ ~Disabled(s, i)
    /\ StartAdd(s, "buy",
                Entry(current_user[s], "spend", "shop", TICKETS[i].name, 1, TICKETS[i].cost),
                inp)

\* Only a button rendered enabled can be pressed.  The run that handles the
\* press reaches add_entry without comparing the balance with the cost again.
ClickBuy(s, i, inp) ==
    /\ ~Disabled(s, i)
    /\ StartAdd(s, "buy",
                Entry(current_user[s], "spend", "shop", TICKETS[i].name, 1, -TICKETS[i].cost),
                inp)

\* save_data: to_csv opens DATA_FILE for writing, which truncates it ...
Open(s) ==
    /\ pc[s] = "open"
    /\ fstate' = "empty"
    /\ pc' = [pc EXCEPT ![s] = "write"]
    /\ UNCHANGED <<stored, current_user, current_balance, clicked, new_entry, df>>

\* ... and writes the whole frame; st.rerun() follows.
Write(s) ==
    /\ pc[s] = "write"
    /\ fstate' = "csv"
    /\ stored' = to_csv(concat(df[s], new_entry[s]))
    /\ pc' = [pc EXCEPT ![s] = "rerun"]
    /\ clicked' = [clicked EXCEPT ![s] = "none"]
    /\ new_entry' = [new_entry EXCEPT ![s] = NoEntry]
    /\ df' = [df EXCEPT ![s] = << >>]
    /\ UNCHANGED <<current_user, current_balance>>

\* The widget events of session s, their inputs drawn from the sets of inp.
Events(s, inp) ==
    \/ Render(s)
    \/ \E u \in UserSet : SelectUser(s, u)
    \/ \E i \in inp.savings : ClickSaving(s, i, inp)
    \/ \E a \in inp.amounts : SubmitDeposit(s, a, inp)
    \/ \E i \in inp.diets : ClickDiet(s, i, inp)
    \/ \E d \in inp.descs, p \in DietPoints : SubmitDiet(s, d, p, inp)
    \/ \E i \in inp.tickets : ClickBuy(s, i, inp)

\* One session alone, every button and both forms.
AllInputs ==
    [savings |-> DOMAIN SAVINGS_ITEMS, amounts |-> DepositAmounts,
     diets |-> DOMAIN DIET_ITEMS, descs |-> DietDescs, tickets |-> DOMAIN TICKETS,
     maxlog |-> MaxLog, atomic |-> FALSE]

NextSingle == Events(1, AllInputs) \/ Open(1) \/ Write(1)

SpecSingle == Init /\ [][NextSingle]_vars

\* Two sessions on one button or text of each kind, the steps of their
\* add_entry calls interleaved.
SharedInputs ==
    [savings |-> {2}, amounts |-> {200},
     diets |-> {1}, descs |-> {"", "NA"}, tickets |-> {1},
     maxlog |-> MaxShared, atomic |-> FALSE]

Next == \E s \in Sessions : Events(s, SharedInputs) \/ Open(s) \/ Write(s)

Spec == Init /\ [][Next]_vars

\* Two sessions whose script runs take turns: no run starts while another
\* session's add_entry is under way.
TurnInputs == [SharedInputs EXCEPT !.maxlog = MaxTurns, !.atomic = TRUE]

NextTurns == \E s \in Sessions : Events(s, TurnInputs)

SpecTurns == Init /\ [][NextTurns]_vars

\* ------------------------------------------------------------ properties
\* The rows DATA_FILE holds now.
FileRows == IF fstate = "csv" THEN stored ELSE << >>

IsPrefix(a, b) == Len(a) <= Len(b) /\ \A i \in 1..Len(a) : a[i] = b[i]

\* Session s completes save_data, the last statement of add_entry.
Saves(s) == pc[s] = "write" /\ pc'[s] = "rerun"

\* A row without its Item.
Core(r) == [User |-> r.User, Type |-> r.Type, Category |-> r.Category,
            Value |-> r.Value, Points |-> r.Points]

\* C1: when add_entry(r) returns, load_data() is the frame add_entry loaded
\* followed by r, every field of r as it was passed.
C1_RoundTrip ==
    [][\A s \in Sessions : Saves(s) => load_data' = concat(df[s], new_entry[s])]_vars

\* C2: the log stored at an earlier point is a prefix of the log stored at
\* every later point: no step removes, reorders or changes a stored row.
C2_AppendOnly == [][IsPrefix(stored, stored')]_vars

\* C3: in a single session the purchase button of ticket t is usable exactly
\* when get_balance(u) >= t.cost; a purchase stores the spend row of t and
\* lowers the balance by t.cost; with get_balance(u) < t.cost no purchase
\* starts; no balance is ever below 0.
C3_StrictRedemption ==
    /\ [](\A u \in UserSet : get_balance(u) >= 0)
    /\ [](\A s \in Sessions : pc[s] = "idle" =>
            \A i \in DOMAIN TICKETS :
                ~Disabled(s, i) <=> get_balance(current_user[s]) >= TICKETS[i].cost)
    /\ [][\A s \in Sessions :
            /\ (pc[s] = "idle" /\ clicked'[s] = "buy") =>
                  \E i \in DOMAIN TICKETS :
                      /\ get_balance(current_user[s]) >= TICKETS[i].cost
                      /\ new_entry'[s] = Entry(current_user[s], "spend", "shop",
                                               TICKETS[i].name, 1, -TICKETS[i].cost)
            /\ (Saves(s) /\ clicked[s] = "buy") =>
                  /\ Core(stored'[Len(stored')]) = Core(new_entry[s])
                  /\ Len(stored') = Len(stored) + 1
                  /\ BalanceOf(load_data', new_entry[s].User) =
                        BalanceOf(read_csv(stored), new_entry[s].User) + new_entry[s].Points
         ]_vars

C3_Witness ==
    /\ pc[1] = "rerun"
    /\ \E i \in DOMAIN FileRows : FileRows[i].Type = "spend" /\ i = Len(FileRows)
    /\ get_balance(current_user[1]) = 0

\* C4: a purchase stores its spend row only if the user's balance in the
\* ledger at the time of the write is at least the ticket's cost.
C4_RecheckAtAction ==
    [][\A s \in Sessions :
        LET r == stored'[Len(stored')]
        IN  (pc[s] # "rerun" /\ pc'[s] = "rerun" /\ r.Type = "spend") =>
                BalanceOf(read_csv(stored), r.User) >= -r.Points]_vars

\* C5: add_entry of a row of user v leaves get_balance(u) of every other user
\* u as it was on the log add_entry found, and raises get_balance(v) by the
\* row's Points.
C5_Isolation ==
    /\ [](\A s \in Sessions : pc[s] = "open" => df[s] = load_data)
    /\ [][\A s \in Sessions : Saves(s) =>
            \A u \in UserSet :
                get_balance(u)' =
                    BalanceOf(df[s], u)
                    + (IF u = new_entry[s].User THEN new_entry[s].Points ELSE 0)]_vars

C5_Witness ==
    /\ pc[1] = "rerun"
    /\ Len(FileRows) >= 2
    /\ \A u \in UserSet : get_balance(u) > 0

\* C6: an add_entry whose load_data could not read the existing file does not
\* go on to save_data with an empty history.
C6_NoSilentRecovery ==
    [][\A s \in Sessions :
        ~(pc[s] = "idle" /\ fstate # "absent" /\ ReadRaises /\ pc'[s] = "open")]_vars

\* C7: get_global_stats returns the sum of Value over the stored rows with
\* Category saving and Type earn, and the number of stored rows with Category
\* diet and Type earn.
EarnRows(category) ==
    SelectSeq(FileRows, LAMBDA r : r.Category = category /\ r.Type = "earn")

C7_CategoryTotals ==
    get_global_stats = << SumField(EarnRows("saving"), "Value"), Len(EarnRows("diet")) >>

C7_Witness ==
    /\ get_global_stats[1] = 700
    /\ get_global_stats[2] = 1
    /\ \E i, j \in DOMAIN FileRows :
          /\ FileRows[i].User # FileRows[j].User
          /\ FileRows[i].Category = "saving"
          /\ FileRows[j].Category = "saving"

\* C8: with DATA_FILE absent, or present without rows, load_data returns the
\* empty frame, get_balance(u) is 0 for every user and get_global_stats is (0, 0).
C8_EmptyLogZeros ==
    (fstate = "absent" \/ FileRows = << >>) =>
        /\ load_data = << >>
        /\ \A u \in UserSet : get_balance(u) = 0
        /\ get_global_stats = <<0, 0>>

C8_Witness ==
    /\ fstate = "empty"
    /\ current_balance[1] > 0
    /\ get_balance(current_user[1]) = 0

\* C9: every stored row, and every row an action passes to add_entry, is an
\* earn row of Category saving or diet with Points >= 0 (the listed reward
\* for a fixed item, >= 1 for a form), or a spend row of Category shop with
\* Value 1 and Points = -cost of a ticket.
RewardOf(items, r) ==
    \E i \in DOMAIN items :
        r.Item = StrCell(items[i].name) /\ r.Points = items[i].points

IsEarnRow(r) == r.Type = "earn" /\ r.Category \in {"saving", "diet"} /\ r.Points >= 0

IsSpendRow(r) ==
    /\ r.Type = "spend" /\ r.Category = "shop" /\ r.Value = 1
    /\ \E i \in DOMAIN TICKETS : r.Points = -TICKETS[i].cost

C9_SignMatchesDirection ==
    /\ \A i \in DOMAIN stored : IsEarnRow(stored[i]) \/ IsSpendRow(stored[i])
    /\ \A s \in Sessions : pc[s] \in {"open", "write"} =>
          LET r == new_entry[s]
          IN  CASE clicked[s] = "save_item" ->
                       IsEarnRow(r) /\ r.Category = "saving" /\ RewardOf(SAVINGS_ITEMS, r)
                [] clicked[s] = "diet_item" ->
                       IsEarnRow(r) /\ r.Category = "diet" /\ RewardOf(DIET_ITEMS, r)
                [] clicked[s] = "custom_deposit" ->
                       IsEarnRow(r) /\ r.Category = "saving" /\ r.Points >= 1
                [] clicked[s] = "custom_diet" ->
                       IsEarnRow(r) /\ r.Category = "diet" /\ r.Points >= 1
                [] clicked[s] = "buy" -> IsSpendRow(r)
                [] OTHER -> FALSE

C9_Witness ==
    /\ \E i \in DOMAIN FileRows : FileRows[i].Type = "spend"
    /\ \E i \in DOMAIN FileRows : FileRows[i].Type = "earn" /\ FileRows[i].Category = "diet"
    /\ \E i \in DOMAIN FileRows : FileRows[i].Type = "earn" /\ FileRows[i].Category = "saving"

\* C10: every row whose add_entry has completed is still stored, in place,
\* when another add_entry completes, and that add_entry adds one row.
C10_NoLostAppend ==
    [][\A s \in Sessions : Saves(s) =>
        /\ Len(stored') = Len(stored) + 1
        /\ \A i \in 1..Len(stored) : Core(stored'[i]) = Core(stored[i])]_vars

====
